---- MODULE Spec2Model ----
(***************************************************************************)
(* A model of the request dispatch engine of the gateway: the instance     *)
(* registry (internal/instance/config.go), the transparent and protocol    *)
(* handlers (internal/handlers) and the credential manager                 *)
(* (internal/auth, docs/CLOUD-AGNOSTIC-CONFIG.md).                         *)
(*                                                                         *)
(* Strings whose characters matter (request paths, endpoint prefixes,      *)
(* header names) are sequences of one-character strings, so that           *)
(* strings.HasPrefix, slicing and header-key canonicalisation are computed *)
(* character by character.                                                 *)
(***************************************************************************)
EXTENDS Integers, Sequences, FiniteSets, TLC

VARIABLES
    config,            \* the loaded instance.Config (immutable after load)
    providerRegistry,  \* main's map[string]providers.Provider, keyed by kind
    request,           \* the request handled last: <<>> or <<r>>
    matched,           \* name returned by GetInstanceByPath for it, "" if none
    invocations,       \* calls of provider.Invoke made for it, in order
    upstream,          \* what each call of provider.Invoke returned
    response,          \* the writes of a status and a body to the caller
    strategies,        \* CredentialManager.strategies: each provider's cache
    current,           \* CredentialManager.current: index, 0 for nil
    now,               \* the clock, in minutes
    pc,                \* each caller's position in GetCredentials
    ret,               \* each caller's last result of GetCredentials
    seen,              \* per caller: the expired credential it observed in
                       \* this call, whether it then called the upstream,
                       \* and the time and expiry at which it found the
                       \* credential fresh
    attempts,          \* the last run of Initialize: who ran it, the
                       \* current strategy before it, the result
                       \* of each strategy it tried, the error it returned
    environ,           \* the environment of the process: name -> value
    call,              \* the last call of a library function: its name,
                       \* its arguments and what it returned
    stream,            \* the io.ReadCloser InvokeStreaming returned
    caller,            \* the caller's connection: "connected" or "gone"
    hpc,               \* handleStreaming: its position, buf, and the n and
                       \* err of the last stream.Read
    sent               \* the calls of w.Write(buf[:n]) of handleStreaming

dispatchVars == <<config, providerRegistry, request, matched, invocations,
                  upstream, response>>
credVars == <<strategies, current, now, pc, ret, seen, attempts>>
streamVars == <<stream, caller, hpc, sent>>
auxVars == <<environ, call, streamVars>>
vars == <<dispatchVars, credVars, auxVars>>

(***************************************************************************)
(* Bounds of the model.                                                    *)
(***************************************************************************)
MaxPathLen == 3
MaxEndpoints == 2
MaxHeaders == 2
NumStrategies == 2
NumCallers == 2
MaxTime == 2
MaxFrames == 3
BufSize == 2
MaxStem == 2
MaxKeyLen == 3

(***************************************************************************)
(* Strings.                                                                *)
(***************************************************************************)
SeqsUpTo(S, n) == UNION {[1..k -> S] : k \in 0..n}

\* strings.HasPrefix(s, prefix)
HasPrefix(s, prefix) ==
    /\ Len(s) >= Len(prefix)
    /\ SubSeq(s, 1, Len(prefix)) = prefix

\* s[n:] of Go
SliceFrom(s, n) == SubSeq(s, n + 1, Len(s))

LowerLetters == <<"a","b","c","d","e","f","g","h","i","j","k","l","m",
                  "n","o","p","q","r","s","t","u","v","w","x","y","z">>
UpperLetters == <<"A","B","C","D","E","F","G","H","I","J","K","L","M",
                  "N","O","P","Q","R","S","T","U","V","W","X","Y","Z">>

ToUpper(c) ==
    IF \E i \in 1..26 : LowerLetters[i] = c
    THEN UpperLetters[CHOOSE i \in 1..26 : LowerLetters[i] = c]
    ELSE c

ToLower(c) ==
    IF \E i \in 1..26 : UpperLetters[i] = c
    THEN LowerLetters[CHOOSE i \in 1..26 : UpperLetters[i] = c]
    ELSE c

\* The key under which net/http stores a request header: the first letter and
\* every letter after a hyphen in upper case, the others in lower case.
CanonicalMIMEHeaderKey(s) ==
    [i \in 1..Len(s) |->
        IF i = 1 \/ s[i - 1] = "-" THEN ToUpper(s[i]) ELSE ToLower(s[i])]

(***************************************************************************)
(* The instance configuration (internal/instance/config.go).               *)
(***************************************************************************)
InstanceNames == {"i1", "i2"}
Regions == {"us-east-1", "eu-west-1"}

\* Request paths: "/" followed by at most MaxPathLen - 1 characters.
Paths == {<<"/">> \o s : s \in SeqsUpTo({"/", "a", "b"}, MaxPathLen - 1)}

\* The endpoint paths the configurations of the model declare.
Prefixes == {<<"/", "a">>, <<"/", "a", "b">>, <<"/", "b">>}

\* EndpointConfig
EndpointConfigs == [Path : Prefixes, Methods : {<<"POST">>}]

\* InstanceConfig.Endpoints: a non-empty list
EndpointLists == UNION {[1..k -> EndpointConfigs] : k \in 1..MaxEndpoints}

Endpoint(p) == [Path |-> p, Methods |-> <<"POST">>]

\* TransformationConfig; NoTransformation is the nil pointer
NoTransformation ==
    [RequestFrom |-> "", RequestTo |-> "", ResponseFrom |-> "", ResponseTo |-> ""]
ConverseTransformation ==
    [RequestFrom |-> "openai", RequestTo |-> "bedrock_converse",
     ResponseFrom |-> "bedrock_converse", ResponseTo |-> "openai"]
OpenAITransformation ==
    [RequestFrom |-> "openai", RequestTo |-> "openai",
     ResponseFrom |-> "openai", ResponseTo |-> "openai"]

\* InstanceConfig
InstanceConfig(type, mode, region, transformation, endpoints) ==
    [Type |-> type, Mode |-> mode, Protocol |-> "openai", Region |-> region,
     Authentication |-> [Type |-> IF type = "bedrock" THEN "aws_sigv4"
                                                      ELSE "api_key",
                         Token |-> <<"s", "k">>],
     Transformation |-> transformation, Endpoints |-> endpoints]

\* The Config of a handler-less gateway: no configuration is loaded.
NotLoaded == [Instances |-> <<>>]

\* No library function was called yet.
NoCall == [fn |-> "", args |-> <<>>, out |-> <<>>]

\* os.Getenv: the value of the variable, the empty string if it is not set
Getenv(env, name) == IF name \in DOMAIN env THEN env[name] ELSE <<>>

Digit(c) == c \in {"0", "1", "2", "3", "4", "5", "6", "7", "8", "9"}

\* isShellSpecialVar and isAlphaNum of package os
isShellSpecialVar(c) == c \in {"*", "#", "$", "@", "!", "?", "-"} \/ Digit(c)
isAlphaNum(c) ==
    \/ c = "_"
    \/ Digit(c)
    \/ \E i \in 1..26 : LowerLetters[i] = c \/ UpperLetters[i] = c

\* getShellName of package os, on the text after a "$": the name of the
\* variable and the number of characters the reference takes. Inside
\* braces the name is everything up to the closing brace.
getShellName(s) ==
    IF s[1] = "{"
    THEN IF Len(s) > 2 /\ isShellSpecialVar(s[2]) /\ s[3] = "}"
         THEN [name |-> <<s[2]>>, w |-> 3]
         ELSE IF \E i \in 2..Len(s) : s[i] = "}"
              THEN LET i == CHOOSE k \in 2..Len(s) :
                                /\ s[k] = "}"
                                /\ \A l \in 2..(k - 1) : s[l] # "}"
                   IN  IF i = 2 THEN [name |-> <<>>, w |-> 2]
                                ELSE [name |-> SubSeq(s, 2, i - 1), w |-> i]
              ELSE [name |-> <<>>, w |-> 1]
    ELSE IF isShellSpecialVar(s[1])
         THEN [name |-> <<s[1]>>, w |-> 1]
         ELSE LET i == CHOOSE k \in 0..Len(s) :
                           /\ \A l \in 1..k : isAlphaNum(s[l])
                           /\ k < Len(s) => ~isAlphaNum(s[k + 1])
              IN  [name |-> SubSeq(s, 1, i), w |-> i]

\* os.Expand(s, os.Getenv) from position j on
RECURSIVE ExpandFrom(_, _, _)
ExpandFrom(s, j, env) ==
    IF j > Len(s) THEN <<>>
    ELSE IF s[j] = "$" /\ j + 1 <= Len(s)
         THEN LET n == getShellName(SliceFrom(s, j))
              IN  (IF n.name = <<>> /\ n.w > 0 THEN <<>>
                   ELSE IF n.name = <<>> THEN <<"$">>
                   ELSE Getenv(env, n.name))
                  \o ExpandFrom(s, j + n.w + 1, env)
         ELSE <<s[j]>> \o ExpandFrom(s, j + 1, env)

\* os.ExpandEnv
ExpandEnv(s, env) == ExpandFrom(s, 1, env)

\* LoadConfig on the contents of the file: the error of yaml.Unmarshal for
\* bytes that are no YAML; otherwise the configuration the file describes
\* after os.ExpandEnv. The references of the files are in the token of the
\* authentication block.
LoadConfig(document, env) ==
    IF document.kind = "yaml"
    THEN [config |-> [Instances |->
              [n \in DOMAIN document.config.Instances |->
                  [document.config.Instances[n] EXCEPT !.Authentication.Token =
                      ExpandEnv(@, env)]]],
          err |-> FALSE]
    ELSE [config |-> NotLoaded, err |-> TRUE]

\* The order in which one `range c.Instances` visits the map: any order.
InstanceOrders(c) ==
    {o \in [1..Cardinality(DOMAIN c.Instances) -> DOMAIN c.Instances] :
        \A i, j \in DOMAIN o : i # j => o[i] # o[j]}

\* The inner loop of GetInstanceByPath: some endpoint of the instance is a
\* prefix of the path.
InstanceMatches(instance, path) ==
    \E k \in DOMAIN instance.Endpoints :
        HasPrefix(path, instance.Endpoints[k].Path)

\* Config.GetInstanceByPath: the first instance, in the order the map is
\* visited, one of whose endpoints is a prefix of the path; "" is the error.
GetInstanceByPath(c, path, order) ==
    IF \E i \in DOMAIN order : InstanceMatches(c.Instances[order[i]], path)
    THEN order[CHOOSE i \in DOMAIN order :
                  /\ InstanceMatches(c.Instances[order[i]], path)
                  /\ \A j \in 1..(i - 1) :
                        ~InstanceMatches(c.Instances[order[j]], path)]
    ELSE ""

(***************************************************************************)
(* The transparent handler (internal/handlers/transparent_handler.go).     *)
(***************************************************************************)
\* extractProviderPath: strip the first endpoint that is a proper prefix of
\* the path; the path as it is when there is none.
extractProviderPath(fullPath, endpoints) ==
    LET hit(k) == /\ Len(fullPath) > Len(endpoints[k].Path)
                  /\ SubSeq(fullPath, 1, Len(endpoints[k].Path)) = endpoints[k].Path
    IN  IF \E k \in DOMAIN endpoints : hit(k)
        THEN SliceFrom(fullPath,
                 Len(endpoints[CHOOSE k \in DOMAIN endpoints :
                        hit(k) /\ \A j \in 1..(k - 1) : ~hit(j)].Path))
        ELSE fullPath

H_Authorization == <<"A","u","t","h","o","r","i","z","a","t","i","o","n">>
H_XAPIKey == <<"X","-","A","P","I","-","K","e","y">>
H_xapikey == <<"x","-","a","p","i","-","k","e","y">>
H_apikey == <<"a","p","i","-","k","e","y">>
H_XAuthToken == <<"X","-","A","u","t","h","-","T","o","k","e","n">>
H_ContentType == <<"C","o","n","t","e","n","t","-","T","y","p","e">>
H_Connection == <<"C","o","n","n","e","c","t","i","o","n">>
H_KeepAlive == <<"K","e","e","p","-","A","l","i","v","e">>
H_TransferEncoding ==
    <<"T","r","a","n","s","f","e","r","-","E","n","c","o","d","i","n","g">>
H_Upgrade == <<"U","p","g","r","a","d","e">>

\* isAuthHeader: an exact comparison with the five listed names
isAuthHeader(headerName) ==
    headerName \in {H_Authorization, H_XAPIKey, H_xapikey, H_apikey, H_XAuthToken}

\* c.Request.Header as net/http builds it from the header lines on the wire
\* (a sequence of <<name, value>>): canonical key |-> the values, in order.
\* The server moves Transfer-Encoding out of the map, to
\* Request.TransferEncoding.
RequestHeader(wire) ==
    LET keys == {CanonicalMIMEHeaderKey(wire[i][1]) : i \in DOMAIN wire}
                    \ {H_TransferEncoding}
        lines(k) == SelectSeq(wire, LAMBDA h : CanonicalMIMEHeaderKey(h[1]) = k)
    IN  [k \in keys |-> [i \in 1..Len(lines(k)) |-> lines(k)[i][2]]]

\* The header copy loop: every key of the request but the authentication ones,
\* with Header.Get(key), the first value.
CopyHeaders(header) ==
    [k \in {h \in DOMAIN header : ~isAuthHeader(h)} |-> Head(header[k])]

\* Bodies written by the handlers themselves.
\* c.JSON(status, gin.H{"error": message})
PlainError(message) == [kind |-> "plain_error", message |-> message]
\* translator.ErrorResponse{Error: translator.ErrorDetail{Message, Type, Code}}
CanonicalError(message, type, code) ==
    [kind |-> "canonical_error", message |-> message, type |-> type, code |-> code]
\* []byte(text)
TextBody(text) == [kind |-> "text", text |-> text]

NoHeaders == [k \in {} |-> ""]
JSONContentType == [k \in {H_ContentType} |-> "application/json"]

H_contenttype == <<"c","o","n","t","e","n","t","-","t","y","p","e">>

\* getContentType: the Content-Type of the provider's headers (the lower-case
\* key is tried second), "application/json" without one.
getContentType(headers) ==
    IF H_ContentType \in DOMAIN headers THEN headers[H_ContentType]
    ELSE IF H_contenttype \in DOMAIN headers THEN headers[H_contenttype]
    ELSE "application/json"

\* One write of a response to the caller: c.JSON, or c.Data after the
\* c.Header calls that set `headers`.
Write(status, contentType, body) ==
    [status |-> status, headers |-> NoHeaders, contentType |-> contentType,
     body |-> body]

\* fmt.Sprintf("Provider %s not available", instanceCfg.Type)
ProviderNotAvailable(type) ==
    IF type = "bedrock" THEN "Provider bedrock not available"
    ELSE IF type = "openai" THEN "Provider openai not available"
    ELSE "Provider mystery not available"

\* What a handler did with one request.
Outcome(instanceName, calls, returned, writes) ==
    [matched |-> instanceName, invocations |-> calls, upstream |-> returned,
     response |-> writes]

\* providers.ProviderRequest as the transparent handler builds it
TransparentProviderRequest(r, instanceCfg) ==
    [Method |-> r.Method,
     Path |-> extractProviderPath(r.Path, instanceCfg.Endpoints),
     Headers |-> CopyHeaders(RequestHeader(r.Wire)),
     Body |-> r.Body]

\* A reply that replaces the body of an upstream error status by one of the
\* handler's own.
TransparentReplyRewritesErrors(out) ==
    IF out.kind = "response" /\ out.StatusCode < 400
    THEN Write(out.StatusCode, getContentType(out.Headers), out.Body)
    ELSE Write(502, "application/json", PlainError("Provider request failed"))

\* The reply of the transparent handler to what provider.Invoke returned.
TransparentReply(out) ==
    IF out.kind = "response"
    THEN [Write(out.StatusCode, getContentType(out.Headers), out.Body)
             EXCEPT !.headers = out.Headers]
    ELSE IF out.kind = "ProviderError"
    THEN Write(out.StatusCode, "application/json", TextBody(out.Message))
    ELSE Write(500, "application/json", PlainError("Provider request failed"))

\* TransparentHandler.HandleRequest on request r, the map visited in `order`,
\* the environment answering `out` (the body read failing, or what
\* provider.Invoke returns).
TransparentResult(c, registry, r, order, out) ==
    LET instanceName == GetInstanceByPath(c, r.Path, order)
        instanceCfg == c.Instances[instanceName]
    IN  IF instanceName = ""
        THEN Outcome("", <<>>, <<>>,
                 <<Write(404, "application/json",
                     PlainError("No provider instance configured for this path"))>>)
        ELSE IF instanceCfg.Mode # "transparent"
        THEN Outcome(instanceName, <<>>, <<>>,
                 <<Write(400, "application/json",
                     PlainError("This endpoint requires transparent mode"))>>)
        ELSE IF instanceCfg.Type \notin DOMAIN registry
        THEN Outcome(instanceName, <<>>, <<>>,
                 <<Write(503, "application/json",
                     PlainError(ProviderNotAvailable(instanceCfg.Type)))>>)
        ELSE IF out.kind = "readfail"
        THEN Outcome(instanceName, <<>>, <<>>,
                 <<Write(400, "application/json",
                     PlainError("Failed to read request body"))>>)
        ELSE Outcome(instanceName,
                 <<[provider |-> registry[instanceCfg.Type],
                    req |-> TransparentProviderRequest(r, instanceCfg)]>>,
                 <<out>>,
                 <<TransparentReply(out)>>)

(***************************************************************************)
(* The protocol handler (internal/handlers/protocol_handler.go).           *)
(***************************************************************************)
Chatcmpl == <<"c","h","a","t","c","m","p","l","-">>

\* uuid.New().String()[:8]: eight lower-case hexadecimal digits
UUIDPrefixes == {<<"0","0","0","0","0","0","0","0">>,
                 <<"1","a","2","b","3","c","4","d">>}

\* translator.ChatCompletionResponse: the fields the struct declares
ChatCompletionResponse(id, created, model, content) ==
    [kind |-> "chat_completion", ID |-> id, Created |-> created,
     Model |-> model, Content |-> content]

\* json.Unmarshal(body, &openaiResp): an error for bytes that are no JSON
\* object; the fields the struct does not declare are dropped.
ParsesAsJSON(body) == body.kind = "json"
UnmarshalChatCompletion(body) ==
    ChatCompletionResponse(body.id, body.created, body.model, body.content)

\* translator.TranslateConverseToOpenAI(&converseResp, req.Model, requestID)
TranslateConverseToOpenAI(body, model, requestID) ==
    ChatCompletionResponse(requestID, 0, model, body.content)

\* translator.TranslateOpenAIToConverseAPI(&req): the Converse request of
\* the model the request names.
TranslateOpenAIToConverseAPI(body) ==
    [Method |-> "POST",
     Path |-> <<"/","c","o","n","v","e","r","s","e">>,
     Headers |-> JSONContentType,
     Body |-> [kind |-> "json", model |-> body.model, stream |-> body.stream]]

\* The request the protocol handler hands to the provider: the translation,
\* or the bound request marshalled again to the fixed path /chat/completions.
ProtocolProviderRequest(r, instanceCfg) ==
    IF instanceCfg.Transformation # NoTransformation
       /\ instanceCfg.Transformation.RequestTo = "bedrock_converse"
    THEN TranslateOpenAIToConverseAPI(r.Body)
    ELSE [Method |-> "POST",
          Path |-> <<"/","c","h","a","t","/","c","o","m","p","l","e","t","i","o","n","s">>,
          Headers |-> JSONContentType,
          Body |-> [kind |-> "json", model |-> r.Body.model, stream |-> r.Body.stream]]

\* ProtocolHandler.handleProviderError
ProtocolProviderError(out) ==
    IF out.kind = "ProviderError"
    THEN Write(IF out.StatusCode = 0 THEN 500 ELSE out.StatusCode,
               "application/json",
               CanonicalError(out.Message, "provider_error", out.Code))
    ELSE Write(500, "application/json",
               CanonicalError("Internal server error", "internal_error",
                              "unknown_error"))

\* The reply of handleOpenAIProtocol to what provider.Invoke returned.
ProtocolReply(r, instanceCfg, out, requestID, startTime) ==
    IF out.kind # "response"
    THEN ProtocolProviderError(out)
    ELSE IF ~ParsesAsJSON(out.Body)
    THEN Write(500, "application/json",
               CanonicalError("Failed to parse provider response",
                              "internal_error", "response_parse_error"))
    ELSE LET openaiResp ==
                 IF instanceCfg.Transformation # NoTransformation
                    /\ instanceCfg.Transformation.ResponseFrom = "bedrock_converse"
                 THEN TranslateConverseToOpenAI(out.Body, r.Body.model, requestID)
                 ELSE UnmarshalChatCompletion(out.Body)
         IN  Write(200, "application/json",
                   [openaiResp EXCEPT !.ID = requestID, !.Created = startTime])

\* ProtocolHandler.HandleRequest with handleOpenAIProtocol.
ProtocolResult(c, registry, r, order, out, uuid, startTime) ==
    LET instanceName == GetInstanceByPath(c, r.Path, order)
        instanceCfg == c.Instances[instanceName]
        requestID == Chatcmpl \o uuid
    IN  IF instanceName = ""
        THEN Outcome("", <<>>, <<>>,
                 <<Write(404, "application/json",
                     CanonicalError("No provider instance configured for this path",
                                    "invalid_request_error", "instance_not_found"))>>)
        ELSE IF instanceCfg.Mode # "protocol"
        THEN Outcome(instanceName, <<>>, <<>>,
                 <<Write(400, "application/json",
                     CanonicalError("This endpoint requires protocol mode",
                                    "invalid_request_error", "invalid_mode"))>>)
        ELSE IF instanceCfg.Type \notin DOMAIN registry
        THEN Outcome(instanceName, <<>>, <<>>,
                 <<Write(503, "application/json",
                     CanonicalError(ProviderNotAvailable(instanceCfg.Type),
                                    "service_error",
                                    "provider_unavailable"))>>)
        ELSE IF instanceCfg.Protocol # "openai"
        THEN Outcome(instanceName, <<>>, <<>>,
                 <<Write(501, "application/json",
                     CanonicalError("Protocol not yet implemented",
                                    "not_implemented_error",
                                    "protocol_not_implemented"))>>)
        ELSE IF r.Body.kind # "json"
        THEN Outcome(instanceName, <<>>, <<>>,
                 <<Write(400, "application/json",
                     CanonicalError("Invalid request body",
                                    "invalid_request_error", "invalid_json"))>>)
        ELSE IF instanceCfg.Transformation # NoTransformation
                /\ instanceCfg.Transformation.RequestTo = "bedrock_converse"
                /\ ~r.Body.converse
        THEN Outcome(instanceName, <<>>, <<>>,
                 <<Write(400, "application/json",
                     CanonicalError("Failed to translate request",
                                    "invalid_request_error", "translation_failed"))>>)
        ELSE Outcome(instanceName,
                 <<[provider |-> registry[instanceCfg.Type],
                    req |-> ProtocolProviderRequest(r, instanceCfg)]>>,
                 <<out>>,
                 <<ProtocolReply(r, instanceCfg, out, requestID, startTime)>>)

(***************************************************************************)
(* Requests, and the answers of the environment.                           *)
(***************************************************************************)
WireNames == {H_Authorization, H_XAPIKey, H_xapikey, H_apikey, H_XAuthToken,
              H_ContentType, H_Connection, H_KeepAlive, H_TransferEncoding,
              H_Upgrade}
HeaderValues == {"v1", "v2"}

\* The header lines of a request: at most MaxHeaders of them.
WireHeaders == SeqsUpTo(WireNames \X HeaderValues, MaxHeaders)

UpstreamID == Chatcmpl \o <<"U","p","s","t","r","e","a","m">>

\* Bodies an upstream answers with: a JSON object, or bytes that are no JSON.
UpstreamJSON ==
    [kind |-> "json", id |-> UpstreamID, created |-> 999, model |-> "upstream-model",
     content |-> "hello", extra |-> {"system_fingerprint"}]
UpstreamBodies == {UpstreamJSON, TextBody("upstream text")}

\* What provider.Invoke returns: a response, a *ProviderError, another error.
InvokeResponses ==
    [kind : {"response"}, StatusCode : {200, 500},
     Headers : {NoHeaders, [k \in {H_ContentType} |-> "text/plain"]},
     Body : UpstreamBodies]
InvokeErrors ==
    [kind : {"ProviderError"}, StatusCode : {0, 429},
     Message : {"rate limited"}, Code : {"rate_limit_exceeded"}]
        \cup {[kind |-> "error"]}
InvokeOutcomes == InvokeResponses \cup InvokeErrors

\* c.GetRawData() failing
ReadFailure == [kind |-> "readfail"]

TransparentRequests(paths, wires) ==
    [Method : {"GET", "POST"}, Path : paths, Wire : wires,
     Body : {TextBody("payload")}]

\* Bodies of protocol requests: a chat completion request (whose content the
\* Converse translator accepts or not), or bytes ShouldBindJSON rejects.
ProtocolBodies ==
    [kind : {"json"}, model : {"claude-3-sonnet"}, stream : {FALSE},
     converse : BOOLEAN] \cup {TextBody("{")}

ProtocolRequests(paths) ==
    [Method : {"POST"}, Path : paths, Wire : {<<>>}, Body : ProtocolBodies]

(***************************************************************************)
(* The two handlers as actions: one request, handled to its response.      *)
(***************************************************************************)
Handled(handler, r, res) ==
    /\ request = <<>>
    /\ request' = <<[handler |-> handler, Method |-> r.Method, Path |-> r.Path,
                     Wire |-> r.Wire, Body |-> r.Body]>>
    /\ matched' = res.matched
    /\ invocations' = res.invocations
    /\ upstream' = res.upstream
    /\ response' = res.response
    /\ UNCHANGED <<config, providerRegistry, credVars, auxVars>>

TransparentHandleRequest(reqs, outs) ==
    \E r \in reqs, order \in InstanceOrders(config), out \in outs :
        Handled("transparent", r,
                TransparentResult(config, providerRegistry, r, order, out))

ProtocolHandleRequest(reqs, outs) ==
    \E r \in reqs, order \in InstanceOrders(config), out \in outs,
       uuid \in UUIDPrefixes :
        Handled("protocol", r,
                ProtocolResult(config, providerRegistry, r, order, out, uuid, 1000))

\* The handler has returned: the next request is handled from scratch.
Return ==
    /\ request # <<>>
    /\ request' = <<>>
    /\ matched' = ""
    /\ invocations' = <<>>
    /\ upstream' = <<>>
    /\ response' = <<>>
    /\ UNCHANGED <<config, providerRegistry, credVars, auxVars>>

(***************************************************************************)
(* The legacy handler of /v1/chat/completions (ChatCompletionHandler).     *)
(***************************************************************************)
M_claude == <<"c","l","a","u","d","e","-","3">>
M_gpt == <<"g","p","t","-","4">>
M_gemini == <<"g","e","m","i","n","i","-","1">>
M_llama == <<"l","l","a","m","a","-","3">>

\* ModelRouter.RouteModel: the provider kind of the model's prefix, and the
\* provider registered for that kind; "" is the error.
RouteModel(registry, model) ==
    LET kind == IF HasPrefix(model, <<"c","l","a","u","d","e","-">>) THEN "bedrock"
                ELSE IF HasPrefix(model, <<"g","p","t","-">>) THEN "openai"
                ELSE IF HasPrefix(model, <<"g","e","m","i","n","i","-">>) THEN "vertex"
                ELSE ""
    IN  IF kind \in DOMAIN registry THEN kind ELSE ""

\* providers.ErrCode...: the codes of a *ProviderError
ErrCodeInvalidRequest == "invalid_request"
ErrCodeAuthenticationFail == "authentication_failed"
ErrCodeRateLimitExceeded == "rate_limit_exceeded"
ErrCodeModelNotFound == "model_not_found"
ErrCodeServiceUnavailable == "service_unavailable"

\* ChatCompletionHandler.writeError: the canonical body without a code; the
\* text of err, when there is one, is appended to the message.
writeError(statusCode, errorType, message, err) ==
    Write(statusCode, "application/json",
          [kind |-> "canonical_error", message |-> message, detail |-> err,
           type |-> errorType, code |-> ""])

\* ChatCompletionHandler.handleProviderError
LegacyProviderError(out) ==
    IF out.kind # "ProviderError"
    THEN writeError(500, "internal_error", "Internal server error", "error")
    ELSE LET mapped ==
                 IF out.Code = ErrCodeInvalidRequest
                 THEN [errorType |-> "invalid_request_error", statusCode |-> 400]
                 ELSE IF out.Code = ErrCodeAuthenticationFail
                 THEN [errorType |-> "authentication_error", statusCode |-> 401]
                 ELSE IF out.Code = ErrCodeRateLimitExceeded
                 THEN [errorType |-> "rate_limit_error", statusCode |-> 429]
                 ELSE IF out.Code = ErrCodeModelNotFound
                 THEN [errorType |-> "invalid_request_error", statusCode |-> 404]
                 ELSE IF out.Code = ErrCodeServiceUnavailable
                 THEN [errorType |-> "service_unavailable", statusCode |-> 503]
                 ELSE [errorType |-> "internal_error", statusCode |-> 500]
         IN  writeError(IF out.StatusCode # 0 THEN out.StatusCode
                                              ELSE mapped.statusCode,
                        mapped.errorType, out.Message, "error")

\* ChatCompletionHandler.translateRequest: "" for the providers it has no
\* translation for.
LegacyPath(providerName) ==
    IF providerName = "bedrock" THEN <<"/","i","n","v","o","k","e">>
    ELSE IF providerName = "openai"
    THEN <<"/","c","h","a","t","/","c","o","m","p","l","e","t","i","o","n","s">>
    ELSE IF providerName = "anthropic" THEN <<"/","m","e","s","s","a","g","e","s">>
    ELSE <<>>

translateRequest(providerName, body) ==
    [Method |-> "POST", Path |-> LegacyPath(providerName),
     Headers |-> JSONContentType,
     Body |-> [kind |-> "json", model |-> body.model, stream |-> body.stream]]

\* The decimal digits of n, as fmt.Sprintf("%d", n) writes them.
Digits == <<"0","1","2","3","4","5","6","7","8","9">>
RECURSIVE Decimal(_)
Decimal(n) ==
    IF n < 10 THEN <<Digits[n + 1]>>
    ELSE Decimal(n \div 10) \o <<Digits[(n % 10) + 1]>>

\* translator.TranslateBedrockToOpenAI(&bedrockResp, model, requestID)
TranslateBedrockToOpenAI(body, model, requestID) ==
    ChatCompletionResponse(requestID, 0, model, body.content)

\* ChatCompletionHandler.translateResponse for a body that parses: for
\* bedrock a translation under the id chatcmpl-<Unix time>, for the others
\* the upstream response as the struct holds it.
translateResponse(providerName, body, model, unix) ==
    IF providerName = "bedrock"
    THEN TranslateBedrockToOpenAI(body, model, Chatcmpl \o Decimal(unix))
    ELSE UnmarshalChatCompletion(body)

\* ChatCompletionHandler.Handle with handleNonStreaming.
ChatCompletionResult(registry, r, out, unix) ==
    IF r.Body.kind # "json"
    THEN Outcome("", <<>>, <<>>,
             <<writeError(400, "invalid_request_error",
                          "Invalid JSON in request body", "error")>>)
    ELSE IF r.Body.model = <<>>
    THEN Outcome("", <<>>, <<>>,
             <<writeError(400, "invalid_request_error", "Model is required", "")>>)
    ELSE IF RouteModel(registry, r.Body.model) = ""
    THEN Outcome("", <<>>, <<>>,
             <<writeError(400, "invalid_request_error", "Model not supported",
                          "error")>>)
    ELSE LET providerName == RouteModel(registry, r.Body.model)
         IN  IF LegacyPath(providerName) = <<>>
             THEN Outcome("", <<>>, <<>>,
                      <<writeError(400, "invalid_request_error",
                                   "Failed to translate request", "error")>>)
             ELSE Outcome("",
                      <<[provider |-> registry[providerName],
                         req |-> translateRequest(providerName, r.Body)]>>,
                      <<out>>,
                      <<IF out.kind # "response"
                        THEN LegacyProviderError(out)
                        ELSE IF ~ParsesAsJSON(out.Body)
                        THEN writeError(500, "internal_error",
                                        "Failed to translate response", "error")
                        ELSE Write(200, "application/json",
                                   translateResponse(providerName, out.Body,
                                                     r.Body.model, unix))>>)

\* Bodies of legacy requests: a request for a model, without streaming, or
\* bytes that are no JSON.
LegacyBodies ==
    [kind : {"json"}, model : {<<>>, M_claude, M_gpt, M_gemini, M_llama},
     stream : {FALSE}] \cup {TextBody("{")}

LegacyRequests ==
    [Method : {"POST"},
     Path : {<<"/","v","1","/","c","h","a","t","/","c","o","m","p","l","e","t","i","o","n","s">>},
     Wire : {<<>>}, Body : LegacyBodies]

\* time.Now().Unix() when the response is translated
UnixTimes == {1700000000}

LegacyInvokeErrors ==
    [kind : {"ProviderError"}, StatusCode : {0, 502},
     Message : {"upstream failed"},
     Code : {ErrCodeRateLimitExceeded, ErrCodeServiceUnavailable, "unknown"}]
        \cup {[kind |-> "error"]}

ChatCompletionHandle(reqs, outs) ==
    \E r \in reqs, out \in outs, unix \in UnixTimes :
        Handled("legacy", r, ChatCompletionResult(providerRegistry, r, out, unix))

(***************************************************************************)
(* The streaming path of the legacy handler                                *)
(* (ChatCompletionHandler.handleStreaming). A frame stands for one byte of *)
(* the upstream body; buf holds BufSize of them.                           *)
(***************************************************************************)
Delta(i) == [kind |-> "delta", seq |-> i]
Done == [kind |-> "done", seq |-> 0]
ZeroByte == [kind |-> "zero", seq |-> 0]

\* What an upstream sends on one stream: some delta frames, after which the
\* body ends (with or without the sentinel), the connection fails, or
\* nothing more arrives.
StreamScripts ==
    {[frames |-> [i \in 1..k |-> Delta(i)] \o tail, ending |-> "EOF"] :
        k \in 0..MaxFrames, tail \in {<<>>, <<Done>>}}
    \cup {[frames |-> [i \in 1..k |-> Delta(i)], ending |-> e] :
        k \in 0..MaxFrames, e \in {"unexpected EOF", "stall"}}

\* The stream of InvokeStreaming(ctx, providerReq): what the upstream will
\* send, the context of the call, how much has been read, Close called.
NewStream(script, ctx) ==
    [frames |-> script.frames, ending |-> script.ending, ctx |-> ctx,
     pos |-> 0, closed |-> FALSE]
NoStream ==
    [frames |-> <<>>, ending |-> "", ctx |-> "", pos |-> 0, closed |-> FALSE]

Min(a, b) == IF a < b THEN a ELSE b

\* stream.Read(buf): the (n, err) it may return. A stream whose context is
\* cancelled fails the read; otherwise some of the bytes that remain are
\* returned, the last of them with or before the end of the body; the read
\* of a stalled upstream does not return.
ReadResults(s, cancelled) ==
    IF cancelled
    THEN {[n |-> 0, err |-> "context canceled"]}
    ELSE LET remaining == Len(s.frames) - s.pos
         IN  {[n |-> k, err |-> ""] : k \in 1..Min(remaining, BufSize)}
             \cup (IF remaining <= BufSize /\ s.ending # "stall"
                   THEN {[n |-> remaining, err |-> s.ending]}
                   ELSE {})

\* ctx := r.Context(): the context handed to InvokeStreaming is the
\* request's, cancelled when the caller's connection is lost.
BackgroundContext(c) == FALSE
StreamContextCancelled(c) == c = "gone"

\* buf after stream.Read stored n bytes in it
Filled(buf, s, n) ==
    [i \in 1..BufSize |-> IF i <= n THEN s.frames[s.pos + i] ELSE buf[i]]

\* buf[:n], the argument of w.Write
WholeBuffer(buf, n) == buf
Written(buf, n) == SubSeq(buf, 1, n)

NotStreaming ==
    [at |-> "idle", buf |-> [i \in 1..BufSize |-> ZeroByte], n |-> 0, err |-> ""]

\* w.WriteHeader(http.StatusOK) after the three headers of an event stream
StreamHeader ==
    [status |-> 200,
     headers |-> [k \in {<<"C","a","c","h","e","-","C","o","n","t","r","o","l">>,
                         H_Connection} |->
                     IF k = H_Connection THEN "keep-alive" ELSE "no-cache"],
     contentType |-> "text/event-stream",
     body |-> [kind |-> "stream"]]

\* Bodies of the streaming requests
StreamBodies ==
    [kind : {"json"}, model : {<<>>, M_claude, M_gpt, M_gemini, M_llama},
     stream : {TRUE}] \cup {TextBody("{")}

StreamRequests ==
    [Method : {"POST"},
     Path : {<<"/","v","1","/","c","h","a","t","/","c","o","m","p","l","e","t","i","o","n","s">>},
     Wire : {<<>>}, Body : StreamBodies]

\* What provider.InvokeStreaming returns: a stream, or an error.
StreamOutcomes ==
    {[kind |-> "stream", script |-> s] : s \in StreamScripts}
        \cup LegacyInvokeErrors

\* Handle on a request with stream: true, up to the first stream.Read: the
\* checks of Handle, translateRequest, InvokeStreaming, the header, and the
\* http.Flusher assertion on w.
ChatCompletionStream(reqs, outs) ==
    /\ request = <<>>
    /\ hpc.at = "idle"
    /\ \E r \in reqs, out \in outs, flusher \in BOOLEAN :
          LET early == ChatCompletionResult(providerRegistry, r,
                                            [kind |-> "error"], 0)
              providerName == RouteModel(providerRegistry, r.Body.model)
              started == early.invocations # <<>> /\ out.kind = "stream"
          IN  /\ request' = <<[handler |-> "legacy", Method |-> r.Method,
                               Path |-> r.Path, Wire |-> r.Wire, Body |-> r.Body]>>
              /\ matched' = ""
              /\ invocations' =
                     IF early.invocations = <<>> THEN <<>>
                     ELSE <<[provider |-> providerRegistry[providerName],
                             req |-> translateRequest(providerName, r.Body),
                             streaming |-> TRUE]>>
              /\ upstream' = IF early.invocations = <<>> THEN <<>> ELSE <<out>>
              /\ response' =
                     IF early.invocations = <<>> THEN early.response
                     ELSE IF out.kind # "stream" THEN <<LegacyProviderError(out)>>
                     ELSE IF flusher THEN <<StreamHeader>>
                     ELSE <<StreamHeader,
                            writeError(500, "internal_error",
                                       "Streaming not supported", "")>>
              /\ stream' = IF started
                           THEN [NewStream(out.script, "request")
                                    EXCEPT !.closed = ~flusher]
                           ELSE NoStream
              /\ hpc' = [NotStreaming EXCEPT
                            !.at = IF started /\ flusher THEN "loop"
                                                         ELSE "returned"]
    /\ UNCHANGED <<config, providerRegistry, credVars, environ, call, caller,
                   sent>>

\* n, err := stream.Read(buf); without bytes the loop goes on or, on an
\* error, breaks and the deferred stream.Close() runs.
StreamRead ==
    /\ hpc.at = "loop"
    /\ \E res \in ReadResults(stream, StreamContextCancelled(caller)) :
          /\ stream' = [stream EXCEPT !.pos = @ + res.n,
                                      !.closed = res.n = 0 /\ res.err # ""]
          /\ hpc' = [at |-> IF res.n > 0 THEN "write"
                            ELSE IF res.err # "" THEN "returned" ELSE "loop",
                     buf |-> Filled(hpc.buf, stream, res.n),
                     n |-> res.n, err |-> res.err]
    /\ UNCHANGED <<dispatchVars, credVars, environ, call, caller, sent>>

\* if n > 0 { w.Write(buf[:n]); flusher.Flush() }, its error ignored; then
\* the loop breaks on the err of the read, or reads again.
StreamWrite ==
    /\ hpc.at = "write"
    /\ sent' = Append(sent, [bytes |-> Written(hpc.buf, hpc.n),
                             delivered |-> caller = "connected"])
    /\ hpc' = [hpc EXCEPT !.at = IF hpc.err # "" THEN "returned" ELSE "loop"]
    /\ stream' = [stream EXCEPT !.closed = hpc.err # ""]
    /\ UNCHANGED <<dispatchVars, credVars, environ, call, caller>>

\* The caller closes its connection while the response is streamed; the
\* server cancels the context of the request.
CallerDisconnect ==
    /\ hpc.at \in {"loop", "write"}
    /\ caller = "connected"
    /\ caller' = "gone"
    /\ UNCHANGED <<dispatchVars, credVars, environ, call, stream, hpc, sent>>

\* Handle has returned: the next request is handled from scratch.
StreamReturn ==
    /\ hpc.at = "returned"
    /\ request' = <<>>
    /\ matched' = ""
    /\ invocations' = <<>>
    /\ upstream' = <<>>
    /\ response' = <<>>
    /\ stream' = NoStream
    /\ caller' = "connected"
    /\ hpc' = NotStreaming
    /\ sent' = <<>>
    /\ UNCHANGED <<config, providerRegistry, credVars, environ, call>>

(***************************************************************************)
(* Model routing (README.md, RouteModelToProvider).                        *)
(***************************************************************************)
\* The keys of bedrockModels (every one with the region us-east-1), the
\* elements of openaiModels, the keys of vertexModels (us-central1).
bedrockModels ==
    {<<"c","l","a","u","d","e","-","3","-","s","o","n","n","e","t","-","2","0","2","4","0","2","2","9">>,
     <<"c","l","a","u","d","e","-","3","-","o","p","u","s","-","2","0","2","4","0","2","2","9">>,
     <<"c","l","a","u","d","e","-","3","-","5","-","s","o","n","n","e","t","-","2","0","2","4","0","6","2","0">>,
     <<"c","l","a","u","d","e","-","3","-","h","a","i","k","u","-","2","0","2","4","0","3","0","7">>,
     <<"a","m","a","z","o","n",".","t","i","t","a","n","-","t","e","x","t","-","e","x","p","r","e","s","s","-","v","1">>,
     <<"a","m","a","z","o","n",".","t","i","t","a","n","-","t","e","x","t","-","l","i","t","e","-","v","1">>,
     <<"a","i","2","1",".","j","2","-","u","l","t","r","a","-","v","1">>,
     <<"m","e","t","a",".","l","l","a","m","a","2","-","7","0","b","-","c","h","a","t","-","v","1">>,
     <<"m","i","s","t","r","a","l",".","m","i","s","t","r","a","l","-","7","b","-","i","n","s","t","r","u","c","t","-","v","0",":","2">>}
openaiModels ==
    {<<"g","p","t","-","4">>,
     <<"g","p","t","-","4","-","t","u","r","b","o">>,
     <<"g","p","t","-","4","-","t","u","r","b","o","-","p","r","e","v","i","e","w">>,
     <<"g","p","t","-","3",".","5","-","t","u","r","b","o">>,
     <<"g","p","t","-","3",".","5","-","t","u","r","b","o","-","1","6","k">>,
     <<"t","e","x","t","-","d","a","v","i","n","c","i","-","0","0","3">>,
     <<"t","e","x","t","-","d","a","v","i","n","c","i","-","0","0","2">>}
vertexModels ==
    {<<"g","e","m","i","n","i","-","p","r","o">>,
     <<"g","e","m","i","n","i","-","1",".","5","-","p","r","o">>,
     <<"g","e","m","i","n","i","-","u","l","t","r","a">>,
     <<"t","e","x","t","-","b","i","s","o","n">>,
     <<"c","h","a","t","-","b","i","s","o","n">>}

S_azure == <<"-","a","z","u","r","e">>
S_deployment == <<"-","d","e","p","l","o","y","m","e","n","t">>
S_anthropic == <<"-","a","n","t","h","r","o","p","i","c">>
S_ibm == <<"i","b","m","/">>
S_cohere == <<"c","o","h","e","r","e",".">>

\* model[len(model)-k:]
LastN(model, k) == SubSeq(model, Len(model) - k + 1, Len(model))
\* model[:k]
FirstN(model, k) == SubSeq(model, 1, k)

ModelProviderMapping(model, provider, region) ==
    [Model |-> model, Provider |-> provider, Region |-> region]

\* RouteModelToProvider
RouteModelToProvider(model) ==
    IF model \in bedrockModels
    THEN ModelProviderMapping(model, "bedrock", "us-east-1")
    ELSE IF model \in openaiModels
    THEN ModelProviderMapping(model, "openai", "")
    ELSE IF model \in vertexModels
    THEN ModelProviderMapping(model, "vertex", "us-central1")
    ELSE IF \/ Len(model) > 5 /\ LastN(model, 5) = S_azure
            \/ Len(model) > 11 /\ LastN(model, 11) = S_deployment
    THEN ModelProviderMapping(model, "azure", "eastus")
    ELSE IF Len(model) > 10 /\ LastN(model, 10) = S_anthropic
    THEN ModelProviderMapping(model, "anthropic", "")
    ELSE IF Len(model) > 4 /\ FirstN(model, 4) = S_ibm
    THEN ModelProviderMapping(model, "ibm", "us-south")
    ELSE IF Len(model) > 7 /\ FirstN(model, 7) = S_cohere
    THEN ModelProviderMapping(model, "oracle", "us-ashburn-1")
    ELSE ModelProviderMapping(model, "openai", "")

\* The model names routed: the names of the tables, and every name made of
\* one of the prefixes, a short stem and one of the suffixes.
ModelStems == SeqsUpTo({"x", "-"}, MaxStem)
ModelNames ==
    bedrockModels \cup openaiModels \cup vertexModels
    \cup {p \o stem \o s :
            p \in {<<>>, S_ibm, S_cohere},
            stem \in ModelStems,
            s \in {<<>>, S_azure, S_deployment, S_anthropic}}

\* A call of RouteModelToProvider
RouteModelToProviderCall ==
    /\ \E model \in ModelNames :
          call' = [fn |-> "RouteModelToProvider", args |-> <<model>>,
                   out |-> RouteModelToProvider(model)]
    /\ UNCHANGED <<dispatchVars, credVars, environ, streamVars>>

(***************************************************************************)
(* Storage access control (internal/storage/access_control.go, and the     *)
(* helper of test/e2e/rag_integration_test.go).                            *)
(***************************************************************************)
\* AccessControl
AccessControl(allowedBuckets, deniedPrefixes) ==
    [allowedBuckets |-> allowedBuckets, deniedPrefixes |-> deniedPrefixes]

\* AccessControl.Check
Check(ac, bucket, key) ==
    IF ~\E i \in DOMAIN ac.allowedBuckets : bucket = ac.allowedBuckets[i]
    THEN FALSE
    ELSE IF \E i \in DOMAIN ac.deniedPrefixes :
                HasPrefix(key, ac.deniedPrefixes[i])
    THEN FALSE
    ELSE TRUE

\* CheckStorageAccess
CheckStorageAccess(bucket, key, allowedBuckets, deniedPrefixes) ==
    IF ~\E i \in DOMAIN allowedBuckets : bucket = allowedBuckets[i]
    THEN FALSE
    ELSE IF \E i \in DOMAIN deniedPrefixes :
                HasPrefix(<<"/">> \o key, deniedPrefixes[i])
    THEN FALSE
    ELSE TRUE

\* Buckets, object keys (no leading slash), and the deny lists: a prefix as
\* the tests write it ("/s/") and as the configuration writes it ("s/").
Buckets == {"rag-docs", "internal-data"}
AllowedBuckets == <<"rag-docs">>
ObjectKeys == {k \in SeqsUpTo({"s", "p", "/"}, MaxKeyLen) : k = <<>> \/ k[1] # "/"}
DenyLists ==
    {<<>>, <<<<"/", "s", "/">>>>, <<<<"s", "/">>>>,
     <<<<"p", "/">>, <<"/", "s", "/">>>>}

\* A call of AccessControl.Check
CheckCall ==
    /\ \E bucket \in Buckets, key \in ObjectKeys, denied \in DenyLists :
          call' = [fn |-> "Check", args |-> <<bucket, key, AllowedBuckets, denied>>,
                   out |-> Check(AccessControl(AllowedBuckets, denied), bucket, key)]
    /\ UNCHANGED <<dispatchVars, credVars, environ, streamVars>>

\* A call of CheckStorageAccess
CheckStorageAccessCall ==
    /\ \E bucket \in Buckets, key \in ObjectKeys, denied \in DenyLists :
          call' = [fn |-> "CheckStorageAccess",
                   args |-> <<bucket, key, AllowedBuckets, denied>>,
                   out |-> CheckStorageAccess(bucket, key, AllowedBuckets, denied)]
    /\ UNCHANGED <<dispatchVars, credVars, environ, streamVars>>

(***************************************************************************)
(* Platform detection (internal/platform/detector.go) and the builder of   *)
(* the workload-identity strategies (docs/CLOUD-AGNOSTIC-CONFIG.md).       *)
(***************************************************************************)
EnvNames ==
    {<<"AWS_ROLE_ARN">>, <<"AWS_WEB_IDENTITY_TOKEN_FILE">>,
     <<"AZURE_CLIENT_ID">>, <<"AZURE_TENANT_ID">>,
     <<"AZURE_FEDERATED_TOKEN_FILE">>, <<"GOOGLE_APPLICATION_CREDENTIALS">>,
     <<"OCI_RESOURCE_PRINCIPAL_VERSION">>, <<"IBM_CLOUD_API_KEY">>}

\* The environments of the detector: any of the variables set.
PlatformEnvironments ==
    UNION {[names -> {<<"v">>}] : names \in SUBSET EnvNames}

GoogleCredentialsFile ==
    "/var/run/secrets/workload-identity/google-application-credentials.json"

\* os.Getenv(name) != ""
IsSet(env, name) == Getenv(env, <<name>>) # <<>>

\* fileExists
fileExists(files, path) == path \in files

NoFeatures ==
    [AWSWorkloadIdentity |-> FALSE, AzureWorkloadIdentity |-> FALSE,
     GCPWorkloadIdentity |-> FALSE, OCIResourcePrincipal |-> FALSE,
     IBMComputeResource |-> FALSE]

\* The five checks of DetectPlatform, each of which overwrites Type
AfterEKS(env, p) ==
    IF IsSet(env, "AWS_ROLE_ARN") /\ IsSet(env, "AWS_WEB_IDENTITY_TOKEN_FILE")
    THEN [Type |-> "eks",
          Features |-> [p.Features EXCEPT !.AWSWorkloadIdentity = TRUE]]
    ELSE p
AfterAKS(env, p) ==
    IF /\ IsSet(env, "AZURE_CLIENT_ID")
       /\ IsSet(env, "AZURE_TENANT_ID")
       /\ IsSet(env, "AZURE_FEDERATED_TOKEN_FILE")
    THEN [Type |-> "aks",
          Features |-> [p.Features EXCEPT !.AzureWorkloadIdentity = TRUE]]
    ELSE p
AfterGKE(env, files, p) ==
    IF \/ IsSet(env, "GOOGLE_APPLICATION_CREDENTIALS")
       \/ fileExists(files, GoogleCredentialsFile)
    THEN [Type |-> "gke",
          Features |-> [p.Features EXCEPT !.GCPWorkloadIdentity = TRUE]]
    ELSE p
AfterOKE(env, p) ==
    IF IsSet(env, "OCI_RESOURCE_PRINCIPAL_VERSION")
    THEN [Type |-> "oke",
          Features |-> [p.Features EXCEPT !.OCIResourcePrincipal = TRUE]]
    ELSE p
AfterIKS(env, p) ==
    IF IsSet(env, "IBM_CLOUD_API_KEY")
    THEN [Type |-> "iks",
          Features |-> [p.Features EXCEPT !.IBMComputeResource = TRUE]]
    ELSE p

\* detectCrossCloudIdentities
detectCrossCloudIdentities(env, p) ==
    [p EXCEPT
        !.Features.AzureWorkloadIdentity =
            IF IsSet(env, "AZURE_CLIENT_ID") THEN TRUE ELSE @,
        !.Features.GCPWorkloadIdentity =
            IF IsSet(env, "GOOGLE_APPLICATION_CREDENTIALS") THEN TRUE ELSE @]

\* DetectPlatform
DetectPlatform(env, files) ==
    detectCrossCloudIdentities(env,
        AfterIKS(env,
            AfterOKE(env,
                AfterGKE(env, files,
                    AfterAKS(env,
                        AfterEKS(env, [Type |-> "generic",
                                       Features |-> NoFeatures]))))))

\* ProviderInstanceBuilder.buildWorkloadIdentity: the provider built, or
\* the error.
buildWorkloadIdentity(platform, provider) ==
    IF provider = "aws"
    THEN IF ~platform.Features.AWSWorkloadIdentity
         THEN [built |-> "", err |-> "AWS workload identity not available on this platform"]
         ELSE [built |-> "AWSWorkloadIdentityProvider", err |-> ""]
    ELSE IF provider = "azure"
    THEN IF ~platform.Features.AzureWorkloadIdentity
         THEN [built |-> "", err |-> "Azure workload identity not available on this platform"]
         ELSE [built |-> "AzureWorkloadIdentityProvider", err |-> ""]
    ELSE IF provider = "gcp"
    THEN IF ~platform.Features.GCPWorkloadIdentity
         THEN [built |-> "", err |-> "GCP workload identity not available on this platform"]
         ELSE [built |-> "GCPWorkloadIdentityProvider", err |-> ""]
    ELSE [built |-> "", err |-> "unknown workload identity provider"]

\* DetectPlatform(ctx) at start-up
DetectPlatformCall ==
    /\ call = NoCall
    /\ \E files \in SUBSET {GoogleCredentialsFile} :
          call' = [fn |-> "DetectPlatform", args |-> <<files>>,
                   out |-> DetectPlatform(environ, files)]
    /\ UNCHANGED <<dispatchVars, credVars, environ, streamVars>>

\* The builder, holding the detected platform, builds the strategy of a
\* workload_identity entry of the configuration.
buildWorkloadIdentityCall ==
    /\ call.fn \in {"DetectPlatform", "buildWorkloadIdentity"}
    /\ \E provider \in {"aws", "azure", "gcp", "oci"} :
          LET platform == IF call.fn = "DetectPlatform" THEN call.out
                                                       ELSE call.args[1]
          IN  call' = [fn |-> "buildWorkloadIdentity",
                       args |-> <<platform, provider>>,
                       out |-> buildWorkloadIdentity(platform, provider)]
    /\ UNCHANGED <<dispatchVars, credVars, environ, streamVars>>

(***************************************************************************)
(* The credential manager and its strategies                               *)
(* (internal/auth, docs/CLOUD-AGNOSTIC-CONFIG.md).                         *)
(***************************************************************************)
\* The 5 * time.Minute of IsExpired, in minutes
Skew == 5

\* Lifetimes of the credentials an upstream issues, in minutes
TTLs == {5, 6}

Callers == 1..NumCallers

\* A strategy (AWSWorkloadIdentityProvider, VaultCredentialProvider): its
\* cached credentials, <<>> for nil.
NewStrategy == [credentials |-> <<>>]
Credentials(expiry) == [Expiry |-> expiry]

\* IsExpired: no credentials, or time.Now().Add(5 * time.Minute).After(Expiry)
IsExpired(p, t) ==
    \/ p.credentials = <<>>
    \/ t + Skew > p.credentials[1].Expiry

\* GetCredentials of a strategy returns the cache without calling upstream
Cached(p, t) == p.credentials # <<>> /\ ~IsExpired(p, t)

\* GetCredentials of a strategy at time t, the upstream answering ok with a
\* lifetime ttl when it is called: the strategy after the call, what is
\* returned, and whether the upstream was called.
StrategyGetCredentials(p, t, ok, ttl) ==
    IF Cached(p, t)
    THEN [strategy |-> p, credentials |-> p.credentials, err |-> FALSE,
          called |-> FALSE]
    ELSE IF ok
    THEN [strategy |-> [p EXCEPT !.credentials = <<Credentials(t + ttl)>>],
          credentials |-> <<Credentials(t + ttl)>>, err |-> FALSE,
          called |-> TRUE]
    ELSE [strategy |-> p, credentials |-> <<>>, err |-> TRUE, called |-> TRUE]

\* One attempt of Initialize: the strategy tried and whether it succeeded.
Attempt(i, ok) == [strategy |-> i, ok |-> ok]

\* The loop of CredentialManager.Initialize from strategy i on, at time t,
\* strategy j's upstream answering oks[j] with lifetime ttl: the first
\* strategy whose GetCredentials succeeds becomes current and the loop
\* returns; at the end of the list the error "all credential strategies
\* failed" is returned and current is left as it was.
RECURSIVE InitializeFrom(_, _, _, _, _, _, _)
InitializeFrom(i, strats, cur, t, oks, ttl, tried) ==
    IF i > Len(strats)
    THEN [strategies |-> strats, current |-> cur, tried |-> tried, err |-> TRUE]
    ELSE LET r == StrategyGetCredentials(strats[i], t, oks[i], ttl)
         IN  IF r.err
             THEN InitializeFrom(i + 1, strats, cur, t, oks, ttl,
                                 Append(tried, Attempt(i, FALSE)))
             ELSE [strategies |-> [strats EXCEPT ![i] = r.strategy],
                   current |-> i,
                   tried |-> Append(tried, Attempt(i, TRUE)),
                   err |-> FALSE]

\* A loop that does not return at the first success: every strategy is
\* tried and the last one that succeeds is current.
RECURSIVE InitializeKeepsGoingFrom(_, _, _, _, _, _, _)
InitializeKeepsGoingFrom(i, strats, cur, t, oks, ttl, tried) ==
    IF i > Len(strats)
    THEN [strategies |-> strats, current |-> cur, tried |-> tried,
          err |-> \A k \in DOMAIN tried : ~tried[k].ok]
    ELSE LET r == StrategyGetCredentials(strats[i], t, oks[i], ttl)
         IN  InitializeKeepsGoingFrom(i + 1,
                 [strats EXCEPT ![i] = r.strategy],
                 IF r.err THEN cur ELSE i, t, oks, ttl,
                 Append(tried, Attempt(i, ~r.err)))

InitializeKeepsGoing(strats, cur, t, oks, ttl) ==
    InitializeKeepsGoingFrom(1, strats, cur, t, oks, ttl, <<>>)

\* CredentialManager.Initialize
Initialize(strats, cur, t, oks, ttl) ==
    InitializeFrom(1, strats, cur, t, oks, ttl, <<>>)

NoResult == [credentials |-> <<>>, err |-> "", via |-> ""]
Result(creds, err, via) == [credentials |-> creds, err |-> err, via |-> via]
NotSeen == [observed |-> <<>>, called |-> FALSE, fresh |-> <<>>]
Idle == [at |-> "idle", p |-> 0, via |-> ""]
NoAttempts == [by |-> "", before |-> 0, tried |-> <<>>, err |-> FALSE]

\* manager.Initialize(ctx) called on the manager NewCredentialManager
\* returned, before any GetCredentials.
ManagerInitialize ==
    /\ attempts = NoAttempts
    /\ \A c \in Callers : pc[c].at = "idle"
    /\ \E oks \in [1..NumStrategies -> BOOLEAN], ttl \in TTLs :
          LET res == Initialize(strategies, current, now, oks, ttl)
          IN  /\ strategies' = res.strategies
              /\ current' = res.current
              /\ attempts' = [by |-> "Initialize", before |-> current,
                              tried |-> res.tried,
                              err |-> res.err]
    /\ UNCHANGED <<now, pc, ret, seen, dispatchVars, auxVars>>

\* A caller enters CredentialManager.GetCredentials.
GetCredentialsCall(c) ==
    /\ pc[c].at = "idle"
    /\ pc' = [pc EXCEPT ![c] = [at |-> "check", p |-> 0, via |-> ""]]
    /\ ret' = [ret EXCEPT ![c] = NoResult]
    /\ seen' = [seen EXCEPT ![c] = NotSeen]
    /\ UNCHANGED <<strategies, current, now, attempts, dispatchVars, auxVars>>

\* if m.current == nil { return nil, error }; if m.current.IsExpired() { ... }
CheckCurrent(c) ==
    /\ pc[c].at = "check"
    /\ IF current = 0
       THEN /\ pc' = [pc EXCEPT ![c].at = "done"]
            /\ ret' = [ret EXCEPT ![c] =
                          Result(<<>>, "no credential provider initialized",
                                 "uninitialised")]
            /\ seen' = seen
       ELSE IF IsExpired(strategies[current], now)
       THEN /\ pc' = [pc EXCEPT ![c] = [at |-> "refresh", p |-> 0, via |-> ""]]
            /\ seen' = [seen EXCEPT ![c].observed =
                           <<[strategy |-> current,
                              credentials |-> strategies[current].credentials]>>]
            /\ ret' = ret
       ELSE /\ pc' = [pc EXCEPT ![c] = [at |-> "get", p |-> 0, via |-> "cached"]]
            /\ seen' = [seen EXCEPT ![c].fresh =
                           <<[now |-> now,
                              Expiry |-> strategies[current].credentials[1].Expiry]>>]
            /\ ret' = ret
    /\ UNCHANGED <<strategies, current, now, attempts, dispatchVars, auxVars>>

\* m.current.Refresh(ctx): p.credentials = nil
RefreshReset(c) ==
    /\ pc[c].at = "refresh"
    /\ strategies' = [strategies EXCEPT ![current].credentials = <<>>]
    /\ pc' = [pc EXCEPT ![c] = [at |-> "refresh_get", p |-> current, via |-> ""]]
    /\ UNCHANGED <<current, now, ret, seen, attempts, dispatchVars, auxVars>>

\* Refresh's p.GetCredentials(ctx): the cache if another caller has filled
\* it meanwhile, a call of the upstream otherwise.
RefreshGet(c) ==
    /\ pc[c].at = "refresh_get"
    /\ IF Cached(strategies[pc[c].p], now)
       THEN /\ pc' = [pc EXCEPT ![c] = [at |-> "get", p |-> 0, via |-> "refreshed"]]
            /\ seen' = seen
       ELSE /\ pc' = [pc EXCEPT ![c].at = "refresh_wait"]
            /\ seen' = [seen EXCEPT ![c].called = TRUE]
    /\ UNCHANGED <<strategies, current, now, ret, attempts, dispatchVars, auxVars>>

\* The upstream answers the refresh: the credentials are stored, or Refresh
\* returns the error.
RefreshAnswer(c) ==
    /\ pc[c].at = "refresh_wait"
    /\ \E ok \in BOOLEAN, ttl \in TTLs :
          IF ok
          THEN /\ strategies' = [strategies EXCEPT ![pc[c].p].credentials =
                                    <<Credentials(now + ttl)>>]
               /\ pc' = [pc EXCEPT ![c] = [at |-> "get", p |-> 0, via |-> "refreshed"]]
          ELSE /\ strategies' = strategies
               /\ pc' = [pc EXCEPT ![c] = [at |-> "reelect", p |-> 0, via |-> ""]]
    /\ UNCHANGED <<current, now, ret, seen, attempts, dispatchVars, auxVars>>

\* The result of GetCredentials after a failed refresh: nil credentials and
\* the error of Initialize.
ReelectResult(res) ==
    Result(<<>>, IF res.err THEN "all credential strategies failed" ELSE "",
           "reelected")

\* return nil, m.Initialize(ctx)
Reelect(c) ==
    /\ pc[c].at = "reelect"
    /\ \E oks \in [1..NumStrategies -> BOOLEAN], ttl \in TTLs :
          LET res == Initialize(strategies, current, now, oks, ttl)
          IN  /\ strategies' = res.strategies
              /\ current' = res.current
              /\ attempts' = [by |-> "GetCredentials", before |-> current,
                              tried |-> res.tried,
                              err |-> res.err]
              /\ ret' = [ret EXCEPT ![c] = ReelectResult(res)]
    /\ pc' = [pc EXCEPT ![c].at = "done"]
    /\ seen' = [seen EXCEPT ![c] = NotSeen]
    /\ UNCHANGED <<now, dispatchVars, auxVars>>

\* return m.current.GetCredentials(ctx): the cache, or a call of the upstream
FinalGet(c) ==
    /\ pc[c].at = "get"
    /\ IF Cached(strategies[current], now)
       THEN /\ pc' = [pc EXCEPT ![c].at = "done"]
            /\ ret' = [ret EXCEPT ![c] =
                          Result(strategies[current].credentials, "", pc[c].via)]
            /\ seen' = [seen EXCEPT ![c] = NotSeen]
       ELSE /\ pc' = [pc EXCEPT ![c] = [at |-> "get_wait", p |-> current,
                                        via |-> pc[c].via]]
            /\ UNCHANGED <<ret, seen>>
    /\ UNCHANGED <<strategies, current, now, attempts, dispatchVars, auxVars>>

\* The upstream answers the call of the final GetCredentials.
FinalAnswer(c) ==
    /\ pc[c].at = "get_wait"
    /\ \E ok \in BOOLEAN, ttl \in TTLs :
          IF ok
          THEN /\ strategies' = [strategies EXCEPT ![pc[c].p].credentials =
                                    <<Credentials(now + ttl)>>]
               /\ ret' = [ret EXCEPT ![c] =
                             Result(<<Credentials(now + ttl)>>, "", pc[c].via)]
          ELSE /\ strategies' = strategies
               /\ ret' = [ret EXCEPT ![c] =
                             Result(<<>>, "retrieve failed", pc[c].via)]
    /\ pc' = [pc EXCEPT ![c].at = "done"]
    /\ seen' = [seen EXCEPT ![c] = NotSeen]
    /\ UNCHANGED <<current, now, attempts, dispatchVars, auxVars>>

\* GetCredentials has returned to its caller.
GetCredentialsReturn(c) ==
    /\ pc[c].at = "done"
    /\ pc' = [pc EXCEPT ![c] = Idle]
    /\ UNCHANGED <<strategies, current, now, ret, seen, attempts, dispatchVars, auxVars>>

\* A minute passes.
Tick ==
    /\ now < MaxTime
    /\ now' = now + 1
    /\ UNCHANGED <<strategies, current, pc, ret, seen, attempts, dispatchVars, auxVars>>

\* One step of caller c in CredentialManager.GetCredentials.
GetCredentials(c) ==
    \/ GetCredentialsCall(c)
    \/ CheckCurrent(c)
    \/ RefreshReset(c)
    \/ RefreshGet(c)
    \/ RefreshAnswer(c)
    \/ Reelect(c)
    \/ FinalGet(c)
    \/ FinalAnswer(c)
    \/ GetCredentialsReturn(c)

(***************************************************************************)
(* The provider registry main builds, and the configurations loaded.       *)
(***************************************************************************)
Provider(name, region) == [name |-> name, region |-> region]

\* main: the Bedrock provider is built for AWS_REGION, the OpenAI provider
\* when OPENAI_API_KEY is set; main exits when no provider is registered.
ProviderRegistries ==
    {reg \in UNION {[kinds -> [name : {"bedrock", "openai"}, region : Regions \cup {""}]] :
                        kinds \in (SUBSET {"bedrock", "openai"}) \ {{}}} :
        \A k \in DOMAIN reg :
            /\ reg[k].name = k
            /\ (k = "bedrock") <=> (reg[k].region \in Regions)}

FullRegistry ==
    [k \in {"bedrock", "openai"} |->
        IF k = "bedrock" THEN Provider(k, "us-east-1") ELSE Provider(k, "")]

\* The configurations of Spec: i1 of either kind and mode on /a, and the
\* Bedrock protocol instance of eu-west-1 on /b.
HandlerConfigs ==
    {[Instances |->
        [n \in InstanceNames |->
            IF n = "i1"
            THEN InstanceConfig(type, mode,
                     IF type = "bedrock" THEN "us-east-1" ELSE "",
                     IF type = "bedrock" THEN ConverseTransformation
                                         ELSE OpenAITransformation,
                     <<Endpoint(<<"/", "a">>)>>)
            ELSE InstanceConfig("bedrock", "protocol", "eu-west-1",
                     ConverseTransformation, <<Endpoint(<<"/", "b">>)>>)]] :
        type \in {"bedrock", "openai"}, mode \in {"transparent", "protocol"}}

\* The configurations of SpecResolve: a transparent and a protocol instance,
\* each with any list of endpoints.
ResolveConfigs ==
    {[Instances |->
        [n \in InstanceNames |->
            IF n = "i1"
            THEN InstanceConfig("bedrock", "transparent", "us-east-1",
                                ConverseTransformation, e1)
            ELSE InstanceConfig("openai", "protocol", "",
                                OpenAITransformation, e2)]] :
        e1 \in EndpointLists, e2 \in EndpointLists}

\* The credential manager before NewCredentialManager's caller initialises it.
InitCred ==
    /\ strategies = [i \in 1..NumStrategies |-> NewStrategy]
    /\ current = 0
    /\ now = 0
    /\ pc = [c \in Callers |-> Idle]
    /\ ret = [c \in Callers |-> NoResult]
    /\ seen = [c \in Callers |-> NotSeen]
    /\ attempts = NoAttempts

InitStream ==
    /\ stream = NoStream
    /\ caller = "connected"
    /\ hpc = NotStreaming
    /\ sent = <<>>

InitAux ==
    /\ environ = <<>>
    /\ call = NoCall
    /\ InitStream

InitDispatch(configs, registries) ==
    /\ config \in configs
    /\ providerRegistry \in registries
    /\ request = <<>>
    /\ matched = ""
    /\ invocations = <<>>
    /\ upstream = <<>>
    /\ response = <<>>

(***************************************************************************)
(* Spec: the handlers on every kind of request and every answer of the     *)
(* provider, under the configurations HandlerConfigs.                      *)
(***************************************************************************)
HandlerPaths == {<<"/", "a">>, <<"/", "a", "b">>, <<"/", "b">>, <<"/">>}

HandlerWires == {<<>>, <<<<H_Authorization, "v1">>, <<H_ContentType, "v2">>>>}

Init == InitDispatch(HandlerConfigs, ProviderRegistries) /\ InitCred /\ InitAux

Next ==
    \/ TransparentHandleRequest(TransparentRequests(HandlerPaths, HandlerWires),
                                InvokeOutcomes \cup {ReadFailure})
    \/ ProtocolHandleRequest(ProtocolRequests(HandlerPaths), InvokeOutcomes)
    \/ Return

Spec == Init /\ [][Next]_vars

(***************************************************************************)
(* SpecResolve: path resolution and prefix stripping on every path, under  *)
(* the configurations ResolveConfigs.                                      *)
(***************************************************************************)
OKResponse ==
    [kind |-> "response", StatusCode |-> 200, Headers |-> NoHeaders,
     Body |-> UpstreamJSON]

InitResolve == InitDispatch(ResolveConfigs, {FullRegistry}) /\ InitCred /\ InitAux

NextResolve ==
    \/ TransparentHandleRequest(TransparentRequests(Paths, {<<>>}), {OKResponse})
    \/ ProtocolHandleRequest(ProtocolRequests(Paths), {OKResponse})
    \/ Return

SpecResolve == InitResolve /\ [][NextResolve]_vars

(***************************************************************************)
(* SpecHeaders: the header copy of the transparent handler on every list   *)
(* of header lines, under one configuration.                               *)
(***************************************************************************)
HeaderConfig ==
    [Instances |->
        [n \in InstanceNames |->
            IF n = "i1"
            THEN InstanceConfig("bedrock", "transparent", "us-east-1",
                                ConverseTransformation, <<Endpoint(<<"/", "a">>)>>)
            ELSE InstanceConfig("openai", "protocol", "",
                                OpenAITransformation, <<Endpoint(<<"/", "b">>)>>)]]

InitHeaders == InitDispatch({HeaderConfig}, {FullRegistry}) /\ InitCred /\ InitAux

NextHeaders ==
    \/ TransparentHandleRequest(
           TransparentRequests({<<"/", "a", "b">>}, WireHeaders), {OKResponse})
    \/ Return

SpecHeaders == InitHeaders /\ [][NextHeaders]_vars

(***************************************************************************)
(* SpecCred: one caller of the credential manager at a time.               *)
(* SpecRace: NumCallers concurrent callers of GetCredentials.              *)
(***************************************************************************)
NextCred ==
    \/ ManagerInitialize
    \/ GetCredentials(1)
    \/ Tick

SpecCred == InitHeaders /\ [][NextCred]_vars

NextRace ==
    \/ ManagerInitialize
    \/ \E c \in Callers : GetCredentials(c)
    \/ Tick

SpecRace == InitHeaders /\ [][NextRace]_vars

(***************************************************************************)
(* SpecFailFast: the credential manager is initialised at start-up, then   *)
(* requests are served and GetCredentials is called.                       *)
(***************************************************************************)
\* Initialize has run on the new manager.
Started == attempts # NoAttempts

FailFastPaths == {<<"/", "a", "b">>, <<"/", "b">>}
FailFastOutcomes == {OKResponse, [kind |-> "error"]}

NextFailFast ==
    \/ ManagerInitialize
    \/ (Started /\ TransparentHandleRequest(
                       TransparentRequests(FailFastPaths, {<<>>}), FailFastOutcomes))
    \/ (Started /\ ProtocolHandleRequest(
                       ProtocolRequests(FailFastPaths), FailFastOutcomes))
    \/ Return
    \/ (Started /\ GetCredentials(1))
    \/ Tick

SpecFailFast == InitHeaders /\ [][NextFailFast]_vars

(***************************************************************************)
(* SpecLegacy: the protocol handler and the legacy handler of              *)
(* /v1/chat/completions on every answer of the provider.                   *)
(***************************************************************************)
LegacyRegistries ==
    {[k \in kinds |-> Provider(k, IF k = "bedrock" THEN "us-east-1" ELSE "")] :
        kinds \in {{"bedrock", "openai"}, {"bedrock", "openai", "vertex"}}}

InitLegacy == InitDispatch({HeaderConfig}, LegacyRegistries) /\ InitCred /\ InitAux

NextLegacy ==
    \/ ChatCompletionHandle(LegacyRequests, InvokeResponses \cup LegacyInvokeErrors)
    \/ ProtocolHandleRequest(ProtocolRequests(FailFastPaths), InvokeOutcomes)
    \/ Return

SpecLegacy == InitLegacy /\ [][NextLegacy]_vars

(***************************************************************************)
(* SpecStream: the legacy handler on requests with stream: true, one read  *)
(* and one write of the copy loop at a time, the caller disconnecting at   *)
(* any moment of it. SpecStreamFair: the handler is scheduled whenever it  *)
(* can take a step.                                                        *)
(***************************************************************************)
NextStream ==
    \/ ChatCompletionStream(StreamRequests, StreamOutcomes)
    \/ StreamRead
    \/ StreamWrite
    \/ CallerDisconnect
    \/ StreamReturn

SpecStream == InitLegacy /\ [][NextStream]_vars

SpecStreamFair ==
    /\ SpecStream
    /\ WF_vars(StreamRead)
    /\ WF_vars(StreamWrite)

(***************************************************************************)
(* SpecLib: the functions of the library called on each of their inputs.   *)
(***************************************************************************)
NextLib ==
    \/ RouteModelToProviderCall
    \/ CheckCall
    \/ CheckStorageAccessCall

SpecLib == InitHeaders /\ [][NextLib]_vars

(***************************************************************************)
(* SpecPlatform: the platform is detected in each environment, and the     *)
(* builder then builds workload-identity strategies.                       *)
(***************************************************************************)
InitPlatform ==
    /\ InitDispatch({HeaderConfig}, {FullRegistry})
    /\ InitCred
    /\ environ \in PlatformEnvironments
    /\ call = NoCall
    /\ InitStream

NextPlatform ==
    \/ DetectPlatformCall
    \/ buildWorkloadIdentityCall

SpecPlatform == InitPlatform /\ [][NextPlatform]_vars

(***************************************************************************)
(* SpecLoad: main loads the instance configuration from a file, and the    *)
(* handlers serve under the configuration that loaded.                     *)
(***************************************************************************)
CohereTransformation ==
    [RequestFrom |-> "openai", RequestTo |-> "cohere",
     ResponseFrom |-> "cohere", ResponseTo |-> "openai"]

\* The first instance of the files: well formed, of an unknown provider
\* kind, in protocol mode without a transformation or with one the handler
\* has no case for, or without an authentication type.
LoadFirstInstances ==
    {InstanceConfig("bedrock", "transparent", "us-east-1", NoTransformation,
                    <<Endpoint(<<"/", "a">>)>>),
     InstanceConfig("mystery", "transparent", "", NoTransformation,
                    <<Endpoint(<<"/", "a">>)>>),
     InstanceConfig("openai", "protocol", "", NoTransformation,
                    <<Endpoint(<<"/", "a">>)>>),
     InstanceConfig("openai", "protocol", "", CohereTransformation,
                    <<Endpoint(<<"/", "a">>)>>),
     [InstanceConfig("openai", "protocol", "", OpenAITransformation,
                     <<Endpoint(<<"/", "a">>)>>)
         EXCEPT !.Authentication.Type = ""]}

\* The token of the first instance as the file spells it: a literal, the
\* reference ${N}, the reference ${N:-d} with a default, the reference $N.
TokenTexts ==
    {<<"s", "k">>,
     <<"$", "{", "N", "}">>,
     <<"$", "{", "N", ":", "-", "d", "}">>,
     <<"$", "N">>}

\* The environments of the process: N is not set, or N is set to v.
Environments == {<<>>, [n \in {<<"N">>} |-> <<"v">>]}

\* What the configuration file holds: a configuration of two instances, the
\* second on a prefix of its own or on the prefix of the first, or bytes
\* that are no YAML.
ConfigDocuments ==
    {[kind |-> "yaml",
      config |-> [Instances |->
          [n \in InstanceNames |->
              IF n = "i1" THEN [first EXCEPT !.Authentication.Token = token]
              ELSE InstanceConfig("openai", "protocol", "", OpenAITransformation,
                                  <<Endpoint(p)>>)]]] :
        first \in LoadFirstInstances, p \in {<<"/", "a">>, <<"/", "b">>},
        token \in TokenTexts}
    \cup {[kind |-> "garbage", config |-> NotLoaded]}

\* main: instance.LoadConfig(providerInstancesConfig); on an error the
\* gateway goes on without the instance handlers.
LoadInstanceConfig ==
    /\ config = NotLoaded
    /\ request = <<>>
    /\ call = NoCall
    /\ \E document \in ConfigDocuments :
          LET loaded == LoadConfig(document, environ)
          IN  /\ config' = loaded.config
              /\ call' = [fn |-> "LoadConfig", args |-> <<document>>,
                          out |-> loaded]
    /\ UNCHANGED <<providerRegistry, request, matched, invocations, upstream,
                   response, credVars, environ, streamVars>>

InitLoad ==
    /\ InitDispatch({NotLoaded}, {FullRegistry})
    /\ InitCred
    /\ environ \in Environments
    /\ call = NoCall
    /\ InitStream

NextLoad ==
    \/ LoadInstanceConfig
    \/ (config # NotLoaded /\ TransparentHandleRequest(
                                  TransparentRequests(FailFastPaths, {<<>>}),
                                  {OKResponse}))
    \/ (config # NotLoaded /\ ProtocolHandleRequest(
                                  ProtocolRequests(FailFastPaths), {OKResponse}))
    \/ Return

SpecLoad == InitLoad /\ [][NextLoad]_vars

(***************************************************************************)
(* Properties.                                                             *)
(***************************************************************************)
Transparent == request # <<>> /\ request[1].handler = "transparent"
Protocol == request # <<>> /\ request[1].handler = "protocol"
Invoked == invocations # <<>>

\* The endpoint by which GetInstanceByPath matched the instance: its first
\* endpoint that is a prefix of the path.
MatchedEndpoint(instance, path) ==
    instance.Endpoints[CHOOSE k \in DOMAIN instance.Endpoints :
        /\ HasPrefix(path, instance.Endpoints[k].Path)
        /\ \A j \in 1..(k - 1) : ~HasPrefix(path, instance.Endpoints[j].Path)]

\* C1: whenever a request resolved to an instance, that instance owns a
\* longest one of the endpoint prefixes, over all the instances, that are
\* prefixes of the request path.
LookupIsLongestPrefix ==
    (request # <<>> /\ matched # "") =>
        \E k \in DOMAIN config.Instances[matched].Endpoints :
            /\ HasPrefix(request[1].Path, config.Instances[matched].Endpoints[k].Path)
            /\ \A n \in DOMAIN config.Instances :
                   \A j \in DOMAIN config.Instances[n].Endpoints :
                       HasPrefix(request[1].Path, config.Instances[n].Endpoints[j].Path)
                           => Len(config.Instances[n].Endpoints[j].Path)
                                 <= Len(config.Instances[matched].Endpoints[k].Path)

\* No endpoint path is declared by two instances.
NoSharedPrefix(c) ==
    \A n, m \in DOMAIN c.Instances :
        n # m =>
            \A j \in DOMAIN c.Instances[n].Endpoints :
                \A k \in DOMAIN c.Instances[m].Endpoints :
                    c.Instances[n].Endpoints[j].Path # c.Instances[m].Endpoints[k].Path

\* C2: under a configuration in which no two instances share a prefix, a
\* request whose path starts with a configured prefix resolves to an
\* instance, and every lookup of that path, in whatever order the map is
\* visited, returns that same instance.
ResolutionSingleValued ==
    (/\ request # <<>>
     /\ NoSharedPrefix(config)
     /\ \E n \in DOMAIN config.Instances :
            InstanceMatches(config.Instances[n], request[1].Path))
        => /\ matched # ""
           /\ \A o \in InstanceOrders(config) :
                  GetInstanceByPath(config, request[1].Path, o) = matched

\* C3: a request whose matched instance has another mode than the handler
\* reached is answered 400 with the error code invalid_mode, and the
\* provider is not invoked.
ModeGateInvalidMode ==
    (request # <<>> /\ matched # ""
        /\ config.Instances[matched].Mode # request[1].handler)
        => /\ invocations = <<>>
           /\ Len(response) = 1
           /\ response[1].status = 400
           /\ response[1].body.kind = "canonical_error"
           /\ response[1].body.code = "invalid_mode"

Lower(s) == [i \in 1..Len(s) |-> ToLower(s[i])]

\* C5: the provider request of the transparent handler has no header whose
\* name is, in any capitalisation, Authorization, X-API-Key, api-key or
\* X-Auth-Token.
AuthHeadersNeverForwarded ==
    (Transparent /\ Invoked) =>
        \A k \in DOMAIN invocations[1].req.Headers :
            Lower(k) \notin {Lower(H_Authorization), Lower(H_XAPIKey),
                             Lower(H_apikey), Lower(H_XAuthToken)}

\* C6: the path the transparent handler hands to the provider is the
\* request path without the endpoint prefix by which the instance was
\* matched, the empty path when the two are equal.
PrefixStripped ==
    (Transparent /\ Invoked) =>
        invocations[1].req.Path =
            SliceFrom(request[1].Path,
                      Len(MatchedEndpoint(config.Instances[matched],
                                          request[1].Path).Path))

\* C7: when two instances of one provider kind declare different regions,
\* a request goes to a provider of the region its matched instance declares.
RegionBinding ==
    (/\ request # <<>> /\ Invoked
     /\ \E n \in DOMAIN config.Instances :
            /\ n # matched
            /\ config.Instances[n].Type = config.Instances[matched].Type
            /\ config.Instances[n].Region # config.Instances[matched].Region)
        => invocations[1].provider.region = config.Instances[matched].Region

\* C8: after Initialize on a new manager, the strategies tried are the
\* first ones of the declared order, in that order; none was tried after one
\* succeeded; the one that succeeded is current and no error was returned;
\* and if none succeeded, all were tried, the error was returned and no
\* strategy is current.
ElectionInOrder ==
    attempts.by = "Initialize" =>
        /\ Len(attempts.tried) \in 1..NumStrategies
        /\ \A k \in DOMAIN attempts.tried :
               /\ attempts.tried[k].strategy = k
               /\ attempts.tried[k].ok => k = Len(attempts.tried)
        /\ IF attempts.tried[Len(attempts.tried)].ok
           THEN /\ ~attempts.err
                /\ current = Len(attempts.tried)
           ELSE /\ Len(attempts.tried) = NumStrategies
                /\ attempts.err
                /\ current = 0

\* Initialize elected the second strategy after the first one failed.
ElectionAfterFailureReached ==
    /\ attempts = [by |-> "Initialize", before |-> 0,
                   tried |-> <<Attempt(1, FALSE), Attempt(2, TRUE)>>,
                   err |-> FALSE]
    /\ current = 2

\* C9: a GetCredentials that found the current credential expired, whose
\* refresh failed and whose re-election succeeded, returns without an error
\* the credential of the strategy elected.
ReelectionReturnsCredential ==
    \A c \in Callers :
        (pc[c].at = "done" /\ ret[c].via = "reelected" /\ ~attempts.err)
            => /\ ret[c].err = ""
               /\ ret[c].credentials # <<>>
               /\ ret[c].credentials = strategies[current].credentials

\* C10: at most one refresh is in flight at any moment, and of the callers
\* inside GetCredentials that observed the same expired credential at most
\* one has called the upstream to refresh it.
RefreshCollapse ==
    /\ Cardinality({c \in Callers : pc[c].at = "refresh_wait"}) <= 1
    /\ \A c, d \in Callers :
           (c # d /\ seen[c].observed # <<>>
                  /\ seen[c].observed = seen[d].observed)
               => ~(seen[c].called /\ seen[d].called)

\* C11: a GetCredentials that went on without a refresh found the credential
\* with more than five minutes left: at now + 5 minutes = expiry, and later,
\* the credential is refreshed before it is returned.
ExpiryBoundaryRefreshes ==
    \A c \in Callers :
        seen[c].fresh # <<>> =>
            seen[c].fresh[1].now + Skew < seen[c].fresh[1].Expiry

\* C12: once a strategy has been elected one strategy is current, and a
\* re-election that changes the current strategy moves the manager's only
\* counter-like field, the position of the current strategy, strictly up.
CurrentChangesIncrease ==
    /\ (attempts.by # "" /\ ~(attempts.by = "Initialize" /\ attempts.err))
           => current \in 1..NumStrategies
    /\ (attempts.by # "" /\ attempts.before # 0 /\ current # attempts.before)
           => current > attempts.before

\* No strategy could be elected when the manager was initialised.
Unelected == attempts.by = "Initialize" /\ attempts.err

\* C13: after an initialisation that elected no strategy, a request that
\* reaches an instance of the handler's mode is answered 503 without a call
\* of the provider, and GetCredentials returns an error and no credential.
FailFastWithoutCredentials ==
    Unelected =>
        /\ (request # <<>> /\ matched # ""
               /\ config.Instances[matched].Mode = request[1].handler)
              => /\ invocations = <<>>
                 /\ Len(response) = 1
                 /\ response[1].status = 503
        /\ \A c \in Callers :
               pc[c].at = "done"
                  => ret[c].err # "" /\ ret[c].credentials = <<>>

\* C14: a request whose path matches no endpoint is answered 404 with the
\* canonical error body of type not_found and code instance_not_found, and
\* no provider is invoked.
UnknownPathNotFound ==
    (request # <<>> /\ request[1].handler \in {"transparent", "protocol"}
        /\ matched = "") =>
        /\ invocations = <<>>
        /\ Len(response) = 1
        /\ response[1].status = 404
        /\ response[1].body.kind = "canonical_error"
        /\ response[1].body.type = "not_found"
        /\ response[1].body.code = "instance_not_found"

\* C15: a request whose method is not among the methods of the endpoint
\* that matched its path is answered 405 and the provider is not invoked.
MethodGate ==
    (/\ request # <<>> /\ matched # ""
     /\ \A k \in DOMAIN MatchedEndpoint(config.Instances[matched],
                                         request[1].Path).Methods :
            MatchedEndpoint(config.Instances[matched],
                            request[1].Path).Methods[k] # request[1].Method)
        => /\ invocations = <<>>
           /\ Len(response) = 1
           /\ response[1].status = 405

\* The taxons of the error taxonomy and their statuses.
TaxonStatus ==
    [invalid_request |-> 400, unauthorized |-> 401, not_found |-> 404,
     method_not_allowed |-> 405, invalid_mode |-> 400,
     translation_failed |-> 400, rate_limited |-> 429, upstream_error |-> 502,
     service_unavailable |-> 503, timeout |-> 504, internal_error |-> 500]

\* C16: every error reply of the protocol handler and of the legacy chat
\* completions handler has the canonical body, with a type of the taxonomy
\* and a code, and the status of that taxon.
ProtocolErrorsCanonical ==
    (request # <<>> /\ request[1].handler \in {"protocol", "legacy"}
        /\ Len(response) = 1 /\ response[1].status >= 400)
        => /\ response[1].body.kind = "canonical_error"
           /\ response[1].body.type \in DOMAIN TaxonStatus
           /\ response[1].status = TaxonStatus[response[1].body.type]

HexDigits == {"0","1","2","3","4","5","6","7","8","9","a","b","c","d","e","f"}

\* chatcmpl- followed by exactly eight lower-case hexadecimal digits
IsCanonicalID(id) ==
    /\ Len(id) = Len(Chatcmpl) + 8
    /\ SubSeq(id, 1, Len(Chatcmpl)) = Chatcmpl
    /\ \A i \in (Len(Chatcmpl) + 1)..Len(id) : id[i] \in HexDigits

\* C17: every 200 reply of the protocol handler and of the legacy handler
\* carries an id chatcmpl-<8 hex digits>, and never the id of the upstream
\* response.
GatewayAssignedID ==
    (/\ request # <<>> /\ request[1].handler \in {"protocol", "legacy"}
     /\ Len(response) = 1 /\ response[1].status = 200)
        => /\ IsCanonicalID(response[1].body.ID)
           /\ upstream[1].Body.kind = "json"
                 => response[1].body.ID # upstream[1].Body.id

\* C18: under the translation pair (openai, openai, openai, openai) the 200
\* reply of the protocol handler to an upstream JSON response has every
\* field of that response, the ones the gateway does not know included,
\* with the same value, except the id and the created stamp.
IdentityRoundTrip ==
    (/\ Protocol /\ Invoked
     /\ config.Instances[matched].Transformation = OpenAITransformation
     /\ upstream[1].kind = "response"
     /\ upstream[1].Body.kind = "json")
        => /\ Len(response) = 1
           /\ response[1].body.kind = "chat_completion"
           /\ response[1].body.Model = upstream[1].Body.model
           /\ response[1].body.Content = upstream[1].Body.content
           /\ "extra" \in DOMAIN response[1].body
           /\ response[1].body.extra = upstream[1].Body.extra

\* C19: in a configuration that loaded, no endpoint path is declared by two
\* instances.
LoadRejectsSharedPrefix ==
    config # NotLoaded => NoSharedPrefix(config)

\* The provider kinds of the gateway, and the translation targets the
\* protocol handler implements.
KnownKinds == {"bedrock", "openai", "azure", "anthropic", "vertex", "ibm", "oracle"}
ImplementedTargets == {"bedrock_converse", "openai"}

ValidInstance(instance) ==
    /\ instance.Type \in KnownKinds
    /\ instance.Mode = "protocol" =>
           /\ instance.Transformation # NoTransformation
           /\ instance.Transformation.RequestTo \in ImplementedTargets
    /\ instance.Authentication.Type # ""

\* C20: a configuration that loaded has no instance of an unknown provider
\* kind, no protocol instance without an implemented translation pair and
\* no instance without a credential strategy, and no request is dispatched
\* through such an instance.
LoadRejectsInvalidInstances ==
    /\ config # NotLoaded =>
           \A n \in DOMAIN config.Instances : ValidInstance(config.Instances[n])
    /\ (request # <<>> /\ Invoked /\ matched # "") =>
           ValidInstance(config.Instances[matched])


\* The token of the first instance in the file that was loaded.
LoadedTokenText == call.args[1].config.Instances["i1"].Authentication.Token

\* C21: when a configuration file is loaded, a reference ${N} to a set
\* variable becomes the value of N, a reference ${N:-d} to an unset
\* variable becomes the default d, and with a reference ${N} to an unset
\* variable the load fails and no handler serves.
LoadExpandsEnvironment ==
    (call.fn = "LoadConfig" /\ call.args[1].kind = "yaml") =>
        /\ (LoadedTokenText = <<"$", "{", "N", "}">>
                /\ <<"N">> \in DOMAIN environ)
             => /\ ~call.out.err
                /\ config.Instances["i1"].Authentication.Token = environ[<<"N">>]
        /\ (LoadedTokenText = <<"$", "{", "N", ":", "-", "d", "}">>
                /\ <<"N">> \notin DOMAIN environ)
             => /\ ~call.out.err
                /\ config.Instances["i1"].Authentication.Token = <<"d">>
        /\ (LoadedTokenText = <<"$", "{", "N", "}">>
                /\ <<"N">> \notin DOMAIN environ)
             => /\ call.out.err
                /\ config = NotLoaded


\* C22: the provider request of the transparent handler has none of the
\* hop-by-hop headers Connection, Keep-Alive, Transfer-Encoding, Upgrade.
HopByHopNeverForwarded ==
    (Transparent /\ Invoked) =>
        \A k \in DOMAIN invocations[1].req.Headers :
            Lower(k) \notin {Lower(H_Connection), Lower(H_KeepAlive),
                             Lower(H_TransferEncoding), Lower(H_Upgrade)}


\* The bytes of the calls of w.Write, in order.
RECURSIVE Flatten(_)
Flatten(writes) ==
    IF writes = <<>> THEN <<>>
    ELSE Head(writes).bytes \o Flatten(Tail(writes))

SentBytes == Flatten(sent)

\* handleStreaming has returned from a response it had started.
StreamEnded ==
    /\ hpc.at = "returned"
    /\ response # <<>>
    /\ response[1] = StreamHeader

\* C23: when the handler returns from a streaming response it started, the
\* bytes it wrote end with the terminal sentinel, which occurs once.
SentinelExactlyOnce ==
    StreamEnded =>
        /\ Len(response) = 1
        /\ SentBytes # <<>>
        /\ SentBytes[Len(SentBytes)] = Done
        /\ Cardinality({i \in DOMAIN SentBytes : SentBytes[i] = Done}) = 1

\* C24: a streaming request that fails before a byte is written gets one
\* response with an error status; after a read of the upstream fails once
\* bytes were written, the last thing written is an error event.
StreamFailureHandling ==
    /\ (/\ hpc.at = "returned"
        /\ upstream # <<>>
        /\ \/ upstream[1].kind # "stream"
           \/ hpc.err = "unexpected EOF" /\ sent = <<>>)
       => /\ Len(response) = 1
          /\ response[1].status >= 400
    /\ (StreamEnded /\ hpc.err = "unexpected EOF" /\ sent # <<>>)
       => SentBytes[Len(SentBytes)].kind = "error"

\* C25 (safety): a read that fails with the cancelled context returns no
\* bytes and ends the handler with the stream closed, and at most one write
\* (of bytes read before the caller left) goes to a caller that is gone.
CancelStopsForwarding ==
    /\ hpc.err = "context canceled" =>
           /\ hpc.n = 0
           /\ hpc.at = "returned"
           /\ stream.closed
    /\ Cardinality({i \in DOMAIN sent : ~sent[i].delivered}) <= 1

StreamOrderPreserved ==
    /\ hpc.at \in {"loop", "returned"} =>
           SentBytes = SubSeq(stream.frames, 1, stream.pos)
    /\ hpc.at = "write" =>
           SentBytes = SubSeq(stream.frames, 1, stream.pos - hpc.n)
    /\ (hpc.at = "returned" /\ hpc.err = "EOF") => SentBytes = stream.frames

StreamCopiedReached ==
    /\ hpc.at = "returned"
    /\ hpc.err = "EOF"
    /\ Len(sent) >= 2
    /\ Len(SentBytes) >= MaxFrames
    /\ SentBytes = stream.frames


HasSuffix(s, suffix) ==
    /\ Len(s) >= Len(suffix)
    /\ SubSeq(s, Len(s) - Len(suffix) + 1, Len(s)) = suffix

\* The provider and region of a model name by the routing rule.
RoutingRule(model) ==
    IF model \in bedrockModels THEN <<"bedrock", "us-east-1">>
    ELSE IF model \in openaiModels THEN <<"openai", "">>
    ELSE IF model \in vertexModels THEN <<"vertex", "us-central1">>
    ELSE IF HasSuffix(model, S_azure) \/ HasSuffix(model, S_deployment)
    THEN <<"azure", "eastus">>
    ELSE IF HasSuffix(model, S_anthropic) THEN <<"anthropic", "">>
    ELSE IF HasPrefix(model, S_ibm) THEN <<"ibm", "us-south">>
    ELSE IF HasPrefix(model, S_cohere) THEN <<"oracle", "us-ashburn-1">>
    ELSE <<"openai", "">>

\* C27: every model name is routed to the one provider and region of the
\* routing rule: the tables first, then the suffixes -azure, -deployment
\* and -anthropic, then the prefixes ibm/ and cohere., openai otherwise.
RoutingFollowsRule ==
    call.fn = "RouteModelToProvider" =>
        /\ call.out.Model = call.args[1]
        /\ <<call.out.Provider, call.out.Region>> = RoutingRule(call.args[1])


\* A path without its leading slash.
Unrooted(p) == IF p # <<>> /\ p[1] = "/" THEN Tail(p) ELSE p

\* The key lies under the prefix, either of them written with or without a
\* leading slash.
Under(key, prefix) == HasPrefix(Unrooted(key), Unrooted(prefix))

\* C28: access to (bucket, key) is granted exactly when the bucket is in
\* the allow-list and the key lies under none of the denied prefixes.
AccessIffAllowedAndNotDenied ==
    call.fn \in {"Check", "CheckStorageAccess"} =>
        (call.out <=>
            /\ \E i \in DOMAIN call.args[3] : call.args[1] = call.args[3][i]
            /\ \A i \in DOMAIN call.args[4] : ~Under(call.args[2], call.args[4][i]))


\* The platform the builder holds.
DetectedPlatform ==
    IF call.fn = "DetectPlatform" THEN call.out ELSE call.args[1]

AzureSignals ==
    /\ IsSet(environ, "AZURE_FEDERATED_TOKEN_FILE")
    /\ IsSet(environ, "AZURE_TENANT_ID")
    /\ IsSet(environ, "AZURE_CLIENT_ID")
AWSSignals ==
    /\ IsSet(environ, "AWS_WEB_IDENTITY_TOKEN_FILE")
    /\ IsSet(environ, "AWS_ROLE_ARN")

\* C29: the Azure flag of the detected platform is true only with the
\* federated-token file, the tenant ID and the client ID all set, the AWS
\* flag only with the token file and the role ARN both set; without any
\* signal every flag is false and the platform is generic; and a
\* workload-identity strategy is built only when its flag is true.
PlatformFlagsSound ==
    call.fn \in {"DetectPlatform", "buildWorkloadIdentity"} =>
        /\ DetectedPlatform.Features.AzureWorkloadIdentity => AzureSignals
        /\ DetectedPlatform.Features.AWSWorkloadIdentity => AWSSignals
        /\ (call.fn = "DetectPlatform" /\ DOMAIN environ = {} /\ call.args[1] = {})
              => /\ call.out.Features = NoFeatures
                 /\ call.out.Type = "generic"
        /\ (call.fn = "buildWorkloadIdentity" /\ call.out.built # "") =>
              /\ call.args[2] = "aws" =>
                     DetectedPlatform.Features.AWSWorkloadIdentity
              /\ call.args[2] = "azure" =>
                     DetectedPlatform.Features.AzureWorkloadIdentity
              /\ call.args[2] = "gcp" =>
                     DetectedPlatform.Features.GCPWorkloadIdentity


\* C30: in one dispatch the response status is written once (never twice,
\* and once by the time the handler has returned), the provider is invoked
\* at most once, and every invocation has returned before a response is
\* written.
SingleResponsePerDispatch ==
    request # <<>> =>
        /\ Len(response) <= 1
        /\ hpc.at \in {"idle", "returned"} => Len(response) = 1
        /\ Len(invocations) <= 1
        /\ response # <<>> => Len(upstream) = Len(invocations)

====
